---- MODULE Spec2Model ----
(***************************************************************************)
(* Model of the agentapi Python SDKs:                                      *)
(*   sdk/python/agentapi/api.py      AgentAPI, AgentAPIAsync, Status,      *)
(*                                   Conversation, module-level chat       *)
(*   sdk_python/python/agentapi/api.py   AgentAPIClient, RoutingRule       *)
(* The HTTP server is the environment: every request is answered by a      *)
(* reply chosen from a small set (transport failure, a status code and a   *)
(* JSON document).  Python exceptions are recorded by class name.          *)
(***************************************************************************)
EXTENDS Integers, Sequences, FiniteSets, TLC

VARIABLES
    closed,        \* AgentAPI._client has been closed
    conversation,  \* AgentAPI._conversation.messages
    shared,        \* that list is the one a messages() call handed to the caller
    asyncState,    \* AgentAPIAsync._client: "unset", "open" or "closed"
    inflight,      \* AgentAPIAsync: calls suspended at their await
    closed2,       \* AgentAPIClient._client has been closed
    srvStatus,     \* server: current agent status
    srvHistory,    \* server: message history behind GET /messages
    srvRules,      \* server: rule list behind GET /admin/rules
    pc,            \* where the caller is: "idle" between calls, else inside one
    elapsed,       \* wait_for_idle: time.time() - start, in ticks
    wtimeout,      \* wait_for_idle: argument timeout, in seconds
    wlast,         \* wait_for_idle: duration of the latest status() request
    wseen,         \* wait_for_idle: the agent was idle at the call or at a served status()
    fetched,       \* history: result of the last successful messages()
    result         \* outcome of the most recent call

vars == << closed, conversation, shared, asyncState, inflight, closed2, srvStatus,
           srvHistory, srvRules, pc, elapsed, wtimeout, wlast, wseen, fetched,
           result >>

(***************************************************************************)
(* Bounds                                                                  *)
(***************************************************************************)
MaxHist == 2        \* longest server history
MaxTimeout == 2     \* largest timeout argument, seconds
MaxLatency == 2     \* longest status() request inside wait_for_idle, ticks
MaxInflight == 2    \* most calls of AgentAPIAsync of one kind suspended at one time
MaxCache == 3       \* longest list the caller's own appends build

(***************************************************************************)
(* Program constants                                                       *)
(***************************************************************************)
TicksPerSecond == 2     \* one tick is the 0.5 s of time.sleep(0.5)
SleepTicks == 1
DefaultMaxRetries == 3
DefaultTimeoutSeconds == 30
DefaultModel == "claude-3-5-sonnet-20241022"

Prompts == {"hello"}
AgentReplies == {"hi"}
MessageType == {"user", "raw"}
AgentStatus == {"running", "stable"}
AgentType == {"claude", "goose", "aider", "gemini", "amp", "codex"}
HttpCodes == {200, 302, 500}
DateTok == "2024-01-01T00:00:00"
Zones == {"Z", "+00:00"}

\* Python's None, and the value of a call that raised or has not returned
None == [py |-> "None"]
NoValue == [py |-> "no value"]
\* the client itself, as __enter__ and __aenter__ return it
Self == [py |-> "self"]
NoReqs == << >>

\* a request the server received, with the status code it answered
Req(method, path, code) == [method |-> method, path |-> path, code |-> code]

\* Record of a call: receiver, operation, arguments, exception class ("none"
\* when it returned), returned value, requests it put on the wire, and the
\* server data it was answered with.
Outcome(client, op, arg, exc, value, reqs, env) ==
    [client |-> client, op |-> op, arg |-> arg, exc |-> exc, value |-> value,
     reqs |-> reqs, env |-> env]

(***************************************************************************)
(* The server (environment).  A reply is a transport failure or a status   *)
(* code with a JSON document of one of a few shapes.                       *)
(***************************************************************************)
Replies(shapes, errorShapes) ==
    { [kind |-> "connect_error"] } \cup
    { [kind |-> "http", code |-> c, shape |-> s] :
          c \in { k \in HttpCodes : k >= 200 /\ k <= 299 }, s \in shapes } \cup
    { [kind |-> "http", code |-> c, shape |-> s] :
          c \in { k \in HttpCodes : k < 200 \/ k > 299 }, s \in errorShapes }

ErrorJson == [detail |-> "error"]

MessageShapes == {"ok", "not_ok", "no_ok", "no_body"}
MessageJson(shape) ==
    CASE shape = "ok" -> [body |-> [ok |-> TRUE]]
      [] shape = "not_ok" -> [body |-> [ok |-> FALSE]]
      [] shape = "no_ok" -> [body |-> ErrorJson]
      [] OTHER -> ErrorJson

StatusShapes == {"ok", "bad_status", "no_status", "no_body"}
StatusJson(shape, st) ==
    CASE shape = "ok" -> [body |-> [status |-> st, agent_type |-> "claude"]]
      [] shape = "bad_status" -> [body |-> [status |-> "busy", agent_type |-> "claude"]]
      [] shape = "no_status" -> [body |-> ErrorJson]
      [] OTHER -> ErrorJson

UploadShapes == {"ok", "no_body"}
UploadJson(shape) ==
    CASE shape = "ok" -> [body |-> [ok |-> TRUE, file_path |-> "/uploads/f"]]
      [] OTHER -> ErrorJson

\* GET /messages: every timestamp is written with the same zone suffix, or
\* entry `at` is damaged, or the list served is empty
Damages == {"no_id", "no_time", "bad_time", "naive_time", "offset_time"}
MessagesShapes ==
    { [form |-> "ok", zone |-> z] : z \in Zones } \cup
    { [form |-> f] : f \in {"empty", "no_messages", "no_body"} } \cup
    { [form |-> "damaged", zone |-> "Z", at |-> k, how |-> d] :
          k \in 1..MaxHist, d \in Damages }

DropKey(m, key) == [f \in DOMAIN m \ {key} |-> m[f]]

Damage(m, d) ==
    CASE d = "no_id" -> DropKey(m, "id")
      [] d = "no_time" -> DropKey(m, "time")
      [] d = "bad_time" -> [m EXCEPT !.time = << "Z", DateTok >>]
      [] d = "naive_time" -> [m EXCEPT !.time = << DateTok >>]
      [] OTHER -> [m EXCEPT !.time = << DateTok, "+00:00" >>]

\* a stored message as written on the wire
WireMessage(m, zone) ==
    [id |-> m.id, content |-> m.content, role |-> m.role, time |-> << DateTok, zone >>]

MessagesJson(shape, hist) ==
    CASE shape.form = "ok" ->
           [body |-> [messages |-> [i \in 1..Len(hist) |-> WireMessage(hist[i], shape.zone)]]]
      [] shape.form = "empty" -> [body |-> [messages |-> << >>]]
      [] shape.form = "no_messages" -> [body |-> ErrorJson]
      [] shape.form = "no_body" -> ErrorJson
      [] OTHER ->
           [body |-> [messages |->
               [i \in 1..Len(hist) |->
                   IF i = shape.at
                   THEN Damage(WireMessage(hist[i], shape.zone), shape.how)
                   ELSE WireMessage(hist[i], shape.zone)]]]

\* what the server stores for a message: ids are positions in the history
Stored(hist, content, role) ==
    [id |-> Len(hist), content |-> content, role |-> role]

\* POST /message answered 2xx: a user message is persisted, raw input is not
ServerOnMessage(hist, content, msg_type, accepted) ==
    IF accepted /\ msg_type = "user"
    THEN Append(hist, Stored(hist, content, "user"))
    ELSE hist

(***************************************************************************)
(* HTTP layer                                                              *)
(***************************************************************************)
\* httpx.Response.is_success
is_success(code) == code >= 200 /\ code <= 299

\* httpx client .request/.get/.post on a transport in the given state
\* ("unset": the attribute _client was never assigned).  A closed client and
\* a failed connection put nothing on the wire.
client_request(state, reply) ==
    CASE state = "unset" -> [exc |-> "AttributeError", sent |-> FALSE]
      [] state = "closed" -> [exc |-> "RuntimeError", sent |-> FALSE]
      [] reply.kind = "connect_error" -> [exc |-> "ConnectError", sent |-> FALSE]
      [] OTHER -> [exc |-> "none", sent |-> TRUE]

\* resp.raise_for_status()
raise_for_status(reply) ==
    IF is_success(reply.code) THEN "none" ELSE "HTTPStatusError"

Accepted(state, reply) ==
    client_request(state, reply).sent /\ is_success(reply.code)

TransportState(isClosed) == IF isClosed THEN "closed" ELSE "open"

\* AgentAPI._request / AgentAPIClient._request: the exception raised, or
\* "none" when resp.json() is returned
_request(state, reply) ==
    LET r == client_request(state, reply) IN
    IF r.exc # "none" THEN r
    ELSE [exc |-> raise_for_status(reply), sent |-> TRUE]

Sent(r, reply, method, path) ==
    IF r.sent THEN << Req(method, path, reply.code) >> ELSE NoReqs

(***************************************************************************)
(* Decoding of response documents into the dataclasses                     *)
(***************************************************************************)
Raised(exc) == [exc |-> exc, value |-> NoValue]
Returned(value) == [exc |-> "none", value |-> value]

\* MessageResponse(**resp["body"])
decode_MessageResponse(json) ==
    IF "body" \notin DOMAIN json THEN Raised("KeyError")
    ELSE IF DOMAIN json.body # {"ok"} THEN Raised("TypeError")
    ELSE Returned([ok |-> json.body.ok])

\* UploadResult(**resp["body"])
decode_UploadResult(json) ==
    IF "body" \notin DOMAIN json THEN Raised("KeyError")
    ELSE IF DOMAIN json.body # {"ok", "file_path"} THEN Raised("TypeError")
    ELSE Returned([ok |-> json.body.ok, file_path |-> json.body.file_path])

\* Status(status=AgentStatus(body["status"]), agent_type=AgentType(body["agent_type"]))
decode_Status(json) ==
    IF "body" \notin DOMAIN json THEN Raised("KeyError")
    ELSE IF "status" \notin DOMAIN json.body THEN Raised("KeyError")
    ELSE IF json.body.status \notin AgentStatus THEN Raised("ValueError")
    ELSE IF "agent_type" \notin DOMAIN json.body THEN Raised("KeyError")
    ELSE IF json.body.agent_type \notin AgentType THEN Raised("ValueError")
    ELSE Returned([status |-> json.body.status, agent_type |-> json.body.agent_type])

\* Status.is_idle
is_idle(st) == st.status = "stable"

\* str.replace("Z", "+00:00") on a timestamp given as its lexical pieces
replace_Z(time) ==
    [i \in 1..Len(time) |-> IF time[i] = "Z" THEN "+00:00" ELSE time[i]]

\* datetime.fromisoformat (Python 3.11 and later): a date-time alone is a
\* naive datetime, a date-time followed by +00:00 or by Z is an aware one at
\* UTC offset 0, anything else is refused
fromisoformat(time) ==
    IF Len(time) = 1 /\ time[1] = DateTok
        THEN Returned([date |-> time[1], tz |-> "naive"])
    ELSE IF Len(time) = 2 /\ time[1] = DateTok /\ time[2] \in {"+00:00", "Z"}
        THEN Returned([date |-> time[1], tz |-> "UTC"])
    ELSE Raised("ValueError")

\* Message(id=m["id"], content=m["content"], role=m["role"], time=...)
decode_Message(m) ==
    IF \E k \in {"id", "content", "role", "time"} : k \notin DOMAIN m
        THEN Raised("KeyError")
    ELSE LET t == fromisoformat(replace_Z(m.time)) IN
         IF t.exc # "none" THEN Raised(t.exc)
         ELSE Returned([id |-> m.id, content |-> m.content, role |-> m.role,
                        time |-> t.value])

\* the loop with each message put in front of the list instead of behind it
RECURSIVE messages_loop_front(_, _, _)
messages_loop_front(entries, i, acc) ==
    IF i > Len(entries) THEN Returned(acc)
    ELSE LET d == decode_Message(entries[i]) IN
         IF d.exc # "none" THEN Raised(d.exc)
         ELSE messages_loop_front(entries, i + 1, << d.value >> \o acc)

\* the loop of AgentAPI.messages over resp["body"]["messages"]
RECURSIVE messages_loop(_, _, _)
messages_loop(entries, i, acc) ==
    IF i > Len(entries) THEN Returned(acc)
    ELSE LET d == decode_Message(entries[i]) IN
         IF d.exc # "none" THEN Raised(d.exc)
         ELSE messages_loop(entries, i + 1, Append(acc, d.value))

\* Conversation.last_message
last_message(msgs) == IF msgs # << >> THEN msgs[Len(msgs)] ELSE None

(***************************************************************************)
(* AgentAPI: what each call returns or raises                              *)
(***************************************************************************)
SendOutcome(client, state, content, msg_type, reply) ==
    LET r == _request(state, reply)
        reqs == Sent(r, reply, "POST", "/message")
        arg == [content |-> content, type |-> msg_type]
    IN  IF r.exc # "none" THEN Outcome(client, "send", arg, r.exc, NoValue, reqs, NoValue)
        ELSE LET d == decode_MessageResponse(MessageJson(reply.shape))
             IN  Outcome(client, "send", arg, d.exc, d.value, reqs, NoValue)

StatusOutcome(client, r, reply, st) ==
    LET reqs == Sent(r, reply, "GET", "/status")
    IN  IF r.exc # "none" THEN Outcome(client, "status", None, r.exc, NoValue, reqs, NoValue)
        ELSE LET d == decode_Status(StatusJson(reply.shape, st))
             IN  Outcome(client, "status", None, d.exc, d.value, reqs,
                         [code |-> reply.code, status |-> st])

MessagesOutcome(client, state, reply, hist) ==
    LET r == _request(state, reply)
        reqs == Sent(r, reply, "GET", "/messages")
    IN  IF r.exc # "none"
            THEN Outcome(client, "messages", None, r.exc, NoValue, reqs, NoValue)
        ELSE LET json == MessagesJson(reply.shape, hist) IN
             IF "body" \notin DOMAIN json \/ "messages" \notin DOMAIN json.body
                 THEN Outcome(client, "messages", None, "KeyError", NoValue, reqs, NoValue)
             ELSE LET p == messages_loop(json.body.messages, 1, << >>)
                  IN  Outcome(client, "messages", None, p.exc, p.value, reqs,
                              json.body.messages)

\* the cache emptied before the loop, so that a failed fetch leaves it empty
messages_assign_clear(conv, o) == IF o.exc = "none" THEN o.value ELSE << >>

\* line 206: reached only when the loop raised nothing
messages_assign(conv, o) == IF o.exc = "none" THEN o.value ELSE conv

\* upload with the request made before the file is opened
UploadOutcome_post_first(client, state, exists, reply) ==
    LET r == _request(state, reply)
        reqs == Sent(r, reply, "POST", "/upload")
    IN  IF r.exc # "none"
            THEN Outcome(client, "upload", exists, r.exc, NoValue, reqs, NoValue)
        ELSE IF ~exists
            THEN Outcome(client, "upload", exists, "FileNotFoundError", NoValue, reqs, NoValue)
        ELSE LET d == decode_UploadResult(UploadJson(reply.shape))
             IN  Outcome(client, "upload", exists, d.exc, d.value, reqs, NoValue)

UploadOutcome(client, state, exists, reply) ==
    IF ~exists
        THEN Outcome(client, "upload", exists, "FileNotFoundError", NoValue, NoReqs, NoValue)
    ELSE LET r == _request(state, reply)
             reqs == Sent(r, reply, "POST", "/upload")
         IN  IF r.exc # "none"
                 THEN Outcome(client, "upload", exists, r.exc, NoValue, reqs, NoValue)
             ELSE LET d == decode_UploadResult(UploadJson(reply.shape))
                  IN  Outcome(client, "upload", exists, d.exc, d.value, reqs, NoValue)

\* chat returning the content of messages[0] instead of messages[-1]
ChatOutcome_first(client, prompt, s, m) ==
    IF m.exc # "none"
        THEN Outcome(client, "chat", prompt, m.exc, NoValue, s.reqs \o m.reqs, NoValue)
    ELSE Outcome(client, "chat", prompt, "none",
                 IF m.value # << >> THEN m.value[1].content ELSE "",
                 s.reqs \o m.reqs, m.env)

\* AgentAPI.chat after send returned s and messages returned m
ChatOutcome(client, prompt, s, m) ==
    IF m.exc # "none"
        THEN Outcome(client, "chat", prompt, m.exc, NoValue, s.reqs \o m.reqs, NoValue)
    ELSE Outcome(client, "chat", prompt, "none",
                 IF m.value # << >> THEN m.value[Len(m.value)].content ELSE "",
                 s.reqs \o m.reqs, m.env)

(***************************************************************************)
(* State                                                                   *)
(***************************************************************************)
cacheVars == << conversation, shared >>
asyncVars == << asyncState, inflight >>
waitVars == << elapsed, wtimeout, wlast, wseen >>
rulesVars == << closed2, srvRules >>

Init ==
    /\ closed = FALSE
    /\ conversation = << >>
    /\ shared = FALSE
    /\ asyncState = "unset"
    /\ inflight = << >>
    /\ closed2 = FALSE
    /\ srvStatus \in AgentStatus
    /\ srvHistory = << >>
    /\ srvRules = << >>
    /\ pc = "idle"
    /\ elapsed = 0
    /\ wtimeout = 0
    /\ wlast = 0
    /\ wseen = FALSE
    /\ fetched = << >>
    /\ result = Outcome("AgentAPI", "__init__", None, "none", NoValue, NoReqs, NoValue)

(***************************************************************************)
(* The server acting on its own                                            *)
(***************************************************************************)
\* the agent starts or finishes working
server_flip ==
    /\ srvStatus' = IF srvStatus = "running" THEN "stable" ELSE "running"
    /\ UNCHANGED << closed, cacheVars, asyncVars, srvHistory, pc, fetched, result >>
    /\ UNCHANGED waitVars
    /\ UNCHANGED rulesVars

\* the agent writes a message into the history
server_reply(answer) ==
    /\ Len(srvHistory) < MaxHist
    /\ srvHistory' = Append(srvHistory, Stored(srvHistory, answer, "agent"))
    /\ UNCHANGED << closed, cacheVars, asyncVars, srvStatus, pc, fetched, result >>
    /\ UNCHANGED waitVars
    /\ UNCHANGED rulesVars

(***************************************************************************)
(* AgentAPI (synchronous client).  One caller: a call starts only when the *)
(* previous one has returned.                                              *)
(***************************************************************************)
send(content, msg_type, reply) ==
    /\ pc = "idle"
    /\ msg_type = "user" => Len(srvHistory) < MaxHist
    /\ result' = SendOutcome("AgentAPI", TransportState(closed), content, msg_type, reply)
    /\ srvHistory' = ServerOnMessage(srvHistory, content, msg_type,
                                     Accepted(TransportState(closed), reply))
    /\ UNCHANGED << closed, cacheVars, asyncVars, srvStatus, pc, fetched >>
    /\ UNCHANGED waitVars
    /\ UNCHANGED rulesVars

status(reply) ==
    /\ pc = "idle"
    /\ result' = StatusOutcome("AgentAPI", _request(TransportState(closed), reply),
                               reply, srvStatus)
    /\ UNCHANGED << closed, cacheVars, asyncVars, srvStatus, srvHistory, pc, fetched >>
    /\ UNCHANGED waitVars
    /\ UNCHANGED rulesVars

\* line 206-207: the list assigned to the cache is the list returned
messages(reply) ==
    /\ pc = "idle"
    /\ LET o == MessagesOutcome("AgentAPI", TransportState(closed), reply, srvHistory)
       IN  /\ result' = o
           /\ conversation' = messages_assign(conversation, o)
           /\ shared' = (o.exc = "none" \/ shared)
           /\ fetched' = IF o.exc = "none" THEN o.value ELSE fetched
    /\ UNCHANGED << closed, asyncVars, srvStatus, srvHistory, pc >>
    /\ UNCHANGED waitVars
    /\ UNCHANGED rulesVars

\* line 169 of chat: self.send(prompt, MessageType.USER); the call goes on to
\* line 170 only if send raised nothing
ChatSend(client, state, at, prompt, reply) ==
    LET s == SendOutcome(client, state, prompt, "user", reply)
    IN  /\ Len(srvHistory) < MaxHist
        /\ srvHistory' = ServerOnMessage(srvHistory, prompt, "user", Accepted(state, reply))
        /\ IF s.exc # "none"
              THEN /\ pc' = "idle"
                   /\ result' = Outcome(client, "chat", prompt, s.exc, NoValue, s.reqs, NoValue)
              ELSE /\ pc' = at
                   /\ result' = Outcome(client, "chat", prompt, "pending", NoValue, s.reqs, NoValue)

chat(prompt, reply) ==
    /\ pc = "idle"
    /\ ChatSend("AgentAPI", TransportState(closed), "chat", prompt, reply)
    /\ UNCHANGED << closed, cacheVars, asyncVars, srvStatus, fetched >>
    /\ UNCHANGED waitVars
    /\ UNCHANGED rulesVars

\* lines 170-173 of chat: messages(), then the content of the last message;
\* the new list stays inside chat, the caller is handed a string
chat_messages(reply) ==
    /\ pc = "chat"
    /\ LET m == MessagesOutcome("AgentAPI", TransportState(closed), reply, srvHistory)
       IN  /\ result' = ChatOutcome("AgentAPI", result.arg, result, m)
           /\ conversation' = messages_assign(conversation, m)
           /\ shared' = (m.exc # "none" /\ shared)
           /\ fetched' = IF m.exc = "none" THEN m.value ELSE fetched
    /\ pc' = "idle"
    /\ UNCHANGED << closed, asyncVars, srvStatus, srvHistory >>
    /\ UNCHANGED waitVars
    /\ UNCHANGED rulesVars

\* module-level chat(): a client of its own, open inside the with block
chat_function(prompt, reply) ==
    /\ pc = "idle"
    /\ ChatSend("module", "open", "chat_function", prompt, reply)
    /\ UNCHANGED << closed, cacheVars, asyncVars, srvStatus, fetched >>
    /\ UNCHANGED waitVars
    /\ UNCHANGED rulesVars

chat_function_messages(reply) ==
    /\ pc = "chat_function"
    /\ result' = ChatOutcome("module", result.arg, result,
                             MessagesOutcome("module", "open", reply, srvHistory))
    /\ pc' = "idle"
    /\ UNCHANGED << closed, cacheVars, asyncVars, srvStatus, srvHistory, fetched >>
    /\ UNCHANGED waitVars
    /\ UNCHANGED rulesVars

(***************************************************************************)
(* The cached Conversation in the caller's hands                           *)
(***************************************************************************)
\* a Message the caller builds
CallerMessages ==
    { [id |-> 7, content |-> "note", role |-> "user",
       time |-> [date |-> DateTok, tz |-> "UTC"]] }

CacheWrite(client, op, arg, msgs) ==
    /\ pc = "idle"
    /\ conversation' = msgs
    /\ result' = Outcome(client, op, arg, "none", None, NoReqs, NoValue)
    /\ UNCHANGED << closed, shared, asyncVars, srvStatus, srvHistory, pc, fetched >>
    /\ UNCHANGED waitVars
    /\ UNCHANGED rulesVars

\* Conversation.add on the client's conversation
Conversation_add(message) ==
    /\ Len(conversation) < MaxCache
    /\ CacheWrite("Conversation", "add", message, Append(conversation, message))

\* Conversation.clear on the client's conversation
Conversation_clear ==
    CacheWrite("Conversation", "clear", None, << >>)

\* list.append by the caller on the list messages() returned
returned_append(message) ==
    /\ shared
    /\ Len(conversation) < MaxCache
    /\ CacheWrite("list", "append", message, Append(conversation, message))

upload(exists, reply) ==
    /\ pc = "idle"
    /\ result' = UploadOutcome("AgentAPI", TransportState(closed), exists, reply)
    /\ UNCHANGED << closed, cacheVars, asyncVars, srvStatus, srvHistory, pc, fetched >>
    /\ UNCHANGED waitVars
    /\ UNCHANGED rulesVars

close ==
    /\ pc = "idle"
    /\ closed' = TRUE
    /\ result' = Outcome("AgentAPI", "close", None, "none", None, NoReqs, NoValue)
    /\ UNCHANGED << cacheVars, asyncVars, srvStatus, srvHistory, pc, fetched >>
    /\ UNCHANGED waitVars
    /\ UNCHANGED rulesVars

__enter__ ==
    /\ pc = "idle"
    /\ result' = Outcome("AgentAPI", "__enter__", None, "none", Self, NoReqs, NoValue)
    /\ UNCHANGED << closed, cacheVars, asyncVars, srvStatus, srvHistory, pc, fetched >>
    /\ UNCHANGED waitVars
    /\ UNCHANGED rulesVars

__exit__ ==
    /\ pc = "idle"
    /\ closed' = TRUE
    /\ result' = Outcome("AgentAPI", "__exit__", None, "none", None, NoReqs, NoValue)
    /\ UNCHANGED << cacheVars, asyncVars, srvStatus, srvHistory, pc, fetched >>
    /\ UNCHANGED waitVars
    /\ UNCHANGED rulesVars

(***************************************************************************)
(* AgentAPI.wait_for_idle, one loop iteration at a time.  The locals are   *)
(* cleared when the call returns; what they were is kept in the outcome.   *)
(***************************************************************************)
WaitReturn(timeout, exc, value, reqs, t, last, seen) ==
    /\ pc' = "idle"
    /\ elapsed' = 0
    /\ wtimeout' = 0
    /\ wlast' = 0
    /\ wseen' = FALSE
    /\ result' = Outcome("AgentAPI", "wait_for_idle", timeout, exc, value, reqs,
                         [elapsed |-> t, last |-> last, seen |-> seen])

\* the loop condition with <= for <
wait_test_inclusive(t, timeout) == t <= timeout * TicksPerSecond

\* line 213: time.time() - start < timeout
wait_test(t, timeout) == t < timeout * TicksPerSecond

\* lines 214-215: one status() begun at elapsed time t and taking d ticks,
\* answered from the status the agent has at that instant
WaitPoll(timeout, t, reply, d, reqs, seen) ==
    LET o == StatusOutcome("AgentAPI", _request(TransportState(closed), reply),
                           reply, srvStatus)
        saw == seen \/ (o.reqs # NoReqs /\ srvStatus = "stable")
    IN  IF o.exc # "none"
            THEN WaitReturn(timeout, o.exc, NoValue, reqs \o o.reqs, t + d, d, saw)
        ELSE IF is_idle(o.value)
            THEN WaitReturn(timeout, "none", TRUE, reqs \o o.reqs, t + d, d, saw)
        ELSE /\ pc' = "sleep"
             /\ elapsed' = t + d
             /\ wtimeout' = timeout
             /\ wlast' = d
             /\ wseen' = saw
             /\ result' = Outcome("AgentAPI", "wait_for_idle", timeout, "pending",
                                  NoValue, reqs \o o.reqs, NoValue)

\* the call up to its first status(): start is read and the loop condition is
\* tested at elapsed time 0
wait_for_idle(timeout, reply, d) ==
    /\ pc = "idle"
    /\ IF wait_test(0, timeout)
          THEN WaitPoll(timeout, 0, reply, d, NoReqs, srvStatus = "stable")
          ELSE WaitReturn(timeout, "none", FALSE, NoReqs, 0, 0, srvStatus = "stable")
    /\ UNCHANGED << closed, cacheVars, asyncVars, srvStatus, srvHistory, fetched >>
    /\ UNCHANGED rulesVars

\* line 216: time.sleep(0.5)
wait_sleep ==
    /\ pc = "sleep"
    /\ elapsed' = elapsed + SleepTicks
    /\ pc' = "test"
    /\ UNCHANGED << closed, cacheVars, asyncVars, srvStatus, srvHistory, fetched,
                    result, wtimeout, wlast, wseen >>
    /\ UNCHANGED rulesVars

\* a later iteration: the loop condition holds and status() is called
wait_poll(reply, d) ==
    /\ pc = "test"
    /\ wait_test(elapsed, wtimeout)
    /\ WaitPoll(wtimeout, elapsed, reply, d, result.reqs, wseen)
    /\ UNCHANGED << closed, cacheVars, asyncVars, srvStatus, srvHistory, fetched >>
    /\ UNCHANGED rulesVars

\* line 217: the loop condition fails
wait_timeout ==
    /\ pc = "test"
    /\ ~wait_test(elapsed, wtimeout)
    /\ WaitReturn(wtimeout, "none", FALSE, result.reqs, elapsed, wlast, wseen)
    /\ UNCHANGED << closed, cacheVars, asyncVars, srvStatus, srvHistory, fetched >>
    /\ UNCHANGED rulesVars

\* Status.wait_until_idle(timeout) on a Status value with the given status
wait_until_idle(st, timeout) ==
    /\ pc = "idle"
    /\ result' = Outcome("Status", "wait_until_idle",
                         [self |-> [status |-> st, agent_type |-> "claude"],
                          timeout |-> timeout],
                         "none", TRUE, NoReqs, NoValue)
    /\ UNCHANGED << closed, cacheVars, asyncVars, srvStatus, srvHistory, pc, fetched >>
    /\ UNCHANGED waitVars
    /\ UNCHANGED rulesVars

(***************************************************************************)
(* AgentAPIAsync.  A call is two steps, before and after its await; any    *)
(* other coroutine of the event loop may run between the two.  The server  *)
(* answers a request at some moment while the call is suspended: the model *)
(* takes that moment and the resumption of the call as one step.           *)
(***************************************************************************)
\* a call suspended at its await: on the transport self._client names
\* (own) or on one a later __aenter__ replaced, and whether that transport
\* was closed under it
Flight(op, arg) == [op |-> op, arg |-> arg, own |-> TRUE, aborted |-> FALSE]

Without(flights, i) == [j \in 1..(Len(flights) - 1) |-> flights[IF j < i THEN j ELSE j + 1]]

\* a new transport is assigned; the one before it is not closed
__aenter__ ==
    /\ pc = "idle"
    /\ asyncState' = "open"
    /\ inflight' = [i \in 1..Len(inflight) |-> [inflight[i] EXCEPT !.own = FALSE]]
    /\ result' = Outcome("AgentAPIAsync", "__aenter__", None, "none", Self, NoReqs, NoValue)
    /\ UNCHANGED << closed, cacheVars, srvStatus, srvHistory, pc, fetched >>
    /\ UNCHANGED waitVars
    /\ UNCHANGED rulesVars

\* the suspended calls of the given kinds
Suspended(ops) == { i \in 1..Len(inflight) : inflight[i].op \in ops }

\* __aexit__ up to the await inside aclose(): the transport is marked closed,
\* also under the calls suspended on it, before the event loop gets control;
\* a transport closed already is left at once, none raises AttributeError
__aexit__ ==
    /\ pc = "idle"
    /\ CASE asyncState = "unset" ->
              /\ result' = Outcome("AgentAPIAsync", "__aexit__", None, "AttributeError",
                                   NoValue, NoReqs, NoValue)
              /\ UNCHANGED asyncVars
         [] asyncState = "closed" ->
              /\ result' = Outcome("AgentAPIAsync", "__aexit__", None, "none", None,
                                   NoReqs, NoValue)
              /\ UNCHANGED asyncVars
         [] OTHER ->
              /\ Cardinality(Suspended({"__aexit__"})) < MaxInflight
              /\ asyncState' = "closed"
              /\ inflight' = Append([i \in 1..Len(inflight) |->
                                        IF inflight[i].own
                                        THEN [inflight[i] EXCEPT !.aborted = TRUE]
                                        ELSE inflight[i]],
                                    Flight("__aexit__", None))
              /\ UNCHANGED result
    /\ UNCHANGED << closed, cacheVars, srvStatus, srvHistory, pc, fetched >>
    /\ UNCHANGED waitVars
    /\ UNCHANGED rulesVars

\* __aexit__ resumed: aclose() is done and the call returns
__aexit__resume(i) ==
    /\ pc = "idle"
    /\ i \in 1..Len(inflight)
    /\ inflight[i].op = "__aexit__"
    /\ result' = Outcome("AgentAPIAsync", "__aexit__", None, "none", None, NoReqs, NoValue)
    /\ inflight' = Without(inflight, i)
    /\ UNCHANGED << closed, cacheVars, asyncState, srvStatus, srvHistory, pc, fetched >>
    /\ UNCHANGED waitVars
    /\ UNCHANGED rulesVars

\* the call up to its await: without a usable transport it raises at once,
\* else it is suspended
AsyncBegin(op, arg, raised) ==
    /\ pc = "idle"
    /\ IF asyncState # "open"
          THEN /\ result' = raised
               /\ UNCHANGED inflight
          ELSE /\ Cardinality(Suspended({"send", "status"})) < MaxInflight
               /\ inflight' = Append(inflight, Flight(op, arg))
               /\ UNCHANGED result
    /\ UNCHANGED << closed, cacheVars, asyncState, srvStatus, srvHistory, pc, fetched >>
    /\ UNCHANGED waitVars
    /\ UNCHANGED rulesVars

\* what the await gives when the transport was closed under the call and the
\* response was not read in time
ReadError(op, arg, reply, method, path) ==
    Outcome("AgentAPIAsync", op, arg, "ReadError", NoValue,
            Sent(client_request("open", reply), reply, method, path), NoValue)

\* AgentAPIAsync.send, line 275
async_send(content, msg_type) ==
    AsyncBegin("send", [content |-> content, type |-> msg_type],
               SendOutcome("AgentAPIAsync", asyncState, content, msg_type,
                           [kind |-> "connect_error"]))

\* AgentAPIAsync.send resumed: the server has answered, then lines 280-281
\* (raise_for_status, MessageResponse)
async_send_resume(i, reply, lost) ==
    /\ pc = "idle"
    /\ i \in 1..Len(inflight)
    /\ inflight[i].op = "send"
    /\ lost => inflight[i].aborted
    /\ inflight[i].arg.type = "user" /\ Accepted("open", reply) => Len(srvHistory) < MaxHist
    /\ result' = IF lost
                 THEN ReadError("send", inflight[i].arg, reply, "POST", "/message")
                 ELSE SendOutcome("AgentAPIAsync", "open", inflight[i].arg.content,
                                  inflight[i].arg.type, reply)
    /\ srvHistory' = ServerOnMessage(srvHistory, inflight[i].arg.content,
                                     inflight[i].arg.type, Accepted("open", reply))
    /\ inflight' = Without(inflight, i)
    /\ UNCHANGED << closed, cacheVars, asyncState, srvStatus, pc, fetched >>
    /\ UNCHANGED waitVars
    /\ UNCHANGED rulesVars

\* AgentAPIAsync.status, line 284
async_status ==
    AsyncBegin("status", None,
               StatusOutcome("AgentAPIAsync",
                             client_request(asyncState, [kind |-> "connect_error"]),
                             [kind |-> "connect_error"], srvStatus))

\* AgentAPIAsync.status resumed: lines 288-292, the body is decoded whatever
\* the status code
async_status_resume(i, reply, lost) ==
    /\ pc = "idle"
    /\ i \in 1..Len(inflight)
    /\ inflight[i].op = "status"
    /\ lost => inflight[i].aborted
    /\ result' = IF lost
                 THEN ReadError("status", None, reply, "GET", "/status")
                 ELSE StatusOutcome("AgentAPIAsync", client_request("open", reply),
                                    reply, srvStatus)
    /\ inflight' = Without(inflight, i)
    /\ UNCHANGED << closed, cacheVars, asyncState, srvStatus, srvHistory, pc, fetched >>
    /\ UNCHANGED waitVars
    /\ UNCHANGED rulesVars

(***************************************************************************)
(* Specification of the clients of sdk/python                              *)
(***************************************************************************)
Timeouts == 0..MaxTimeout
Latencies == 0..MaxLatency
MessageReplies == Replies(MessageShapes, {"no_body"})
StatusReplies == Replies(StatusShapes, {"no_body"})
AsyncStatusReplies == Replies(StatusShapes, {"ok", "no_body"})
MessagesReplies == Replies(MessagesShapes, {[form |-> "no_body"]})
UploadReplies == Replies(UploadShapes, {"no_body"})

ServerNext ==
    \/ server_flip
    \/ \E a \in AgentReplies : server_reply(a)

FacadeNext ==
    \/ \E c \in Prompts, k \in MessageType, r \in MessageReplies : send(c, k, r)
    \/ \E r \in StatusReplies : status(r)
    \/ \E r \in MessagesReplies : messages(r)
    \/ \E c \in Prompts, r \in MessageReplies : chat(c, r)
    \/ \E r \in MessagesReplies : chat_messages(r)
    \/ \E c \in Prompts, r \in MessageReplies : chat_function(c, r)
    \/ \E r \in MessagesReplies : chat_function_messages(r)
    \/ \E e \in BOOLEAN, r \in UploadReplies : upload(e, r)
    \/ close
    \/ __enter__
    \/ __exit__

\* the caller writing to the cached list
CacheNext ==
    \/ \E m \in CallerMessages : Conversation_add(m)
    \/ Conversation_clear
    \/ \E m \in CallerMessages : returned_append(m)

\* wait_for_idle called with timeout 0 (no request is made, so no reply
\* and no duration are drawn) or with one of the given timeouts, a status()
\* request taking one of the given durations
WaitNext(timeouts, durations) ==
    \/ \E T \in timeouts \ {0}, r \in StatusReplies, d \in durations : wait_for_idle(T, r, d)
    \/ wait_for_idle(0, [kind |-> "connect_error"], 0)
    \/ wait_sleep
    \/ \E r \in StatusReplies, d \in durations : wait_poll(r, d)
    \/ wait_timeout

\* Status.wait_until_idle on a Status value the caller holds
StatusWaitNext ==
    \E st \in AgentStatus, T \in Timeouts : wait_until_idle(st, T)

Flights == 1..(MaxInflight + MaxInflight)

AsyncNext ==
    \/ __aenter__
    \/ __aexit__
    \/ \E i \in Flights : __aexit__resume(i)
    \/ \E c \in Prompts, k \in MessageType : async_send(c, k)
    \/ \E i \in Flights, r \in MessageReplies, lost \in BOOLEAN :
           async_send_resume(i, r, lost)
    \/ async_status
    \/ \E i \in Flights, r \in AsyncStatusReplies, lost \in BOOLEAN :
           async_status_resume(i, r, lost)

\* the synchronous client with every call; the status() requests of
\* wait_for_idle answer at once (what their duration changes is SpecWait's)
Next ==
    ServerNext \/ FacadeNext \/ CacheNext \/ WaitNext(Timeouts, {0}) \/ StatusWaitNext

Spec == Init /\ [][Next]_vars

\* the synchronous client without its polling loop
NextFacade == ServerNext \/ FacadeNext

SpecFacade == Init /\ [][NextFacade]_vars

\* the cache: the calls that fetch the history, the calls that do not, and
\* the caller's own writes, on a client that stays open; the waits are of
\* one second and their status() requests answer at once, and the history
\* on the server is made of the messages sent
NextCache ==
    \/ server_flip
    \/ \E c \in Prompts, k \in MessageType, r \in MessageReplies : send(c, k, r)
    \/ \E r \in StatusReplies : status(r)
    \/ \E r \in MessagesReplies : messages(r)
    \/ \E c \in Prompts, r \in MessageReplies : chat(c, r)
    \/ \E r \in MessagesReplies : chat_messages(r)
    \/ \E e \in BOOLEAN, r \in UploadReplies : upload(e, r)
    \/ CacheNext
    \/ WaitNext({1}, {0})

SpecCache == Init /\ [][NextCache]_vars

\* the polling loop
NextWait ==
    \/ server_flip
    \/ WaitNext(Timeouts, Latencies)
    \/ StatusWaitNext
    \/ \E r \in StatusReplies : status(r)
    \/ close

SpecWait == Init /\ [][NextWait]_vars

\* the caller's thread keeps running: a sleep ends, a status() request is
\* answered or fails, and the loop condition is tested again
SpecWaitFair ==
    /\ SpecWait
    /\ WF_vars(wait_sleep)
    /\ WF_vars(wait_timeout)
    /\ WF_vars(\E r \in StatusReplies, d \in Latencies : wait_poll(r, d))

\* the asynchronous client, next to send and status of the synchronous one;
\* the history on the server is made of the messages sent
NextAsync ==
    \/ server_flip
    \/ AsyncNext
    \/ \E c \in Prompts, k \in MessageType, r \in MessageReplies : send(c, k, r)
    \/ \E r \in StatusReplies : status(r)
    \/ close

SpecAsync == Init /\ [][NextAsync]_vars

(***************************************************************************)
(* sdk_python: RoutingRule and AgentAPIClient                              *)
(***************************************************************************)
Agents == {"a1", "a2"}
OtherModel == "gpt-4o"
RuleFields == {"agent", "preferred_model", "fallback_models", "max_retries",
               "timeout_seconds"}

\* the defaults with no retries
RoutingRule_no_retries(agent) ==
    [agent |-> agent, preferred_model |-> DefaultModel, fallback_models |-> << >>,
     max_retries |-> 0, timeout_seconds |-> DefaultTimeoutSeconds]

\* RoutingRule(agent=agent): the dataclass defaults
RoutingRule(agent) ==
    [agent |-> agent, preferred_model |-> DefaultModel, fallback_models |-> << >>,
     max_retries |-> DefaultMaxRetries, timeout_seconds |-> DefaultTimeoutSeconds]

\* RoutingRule(**r)
RoutingRule_from(r) ==
    IF "agent" \notin DOMAIN r \/ ~(DOMAIN r \subseteq RuleFields)
        THEN Raised("TypeError")
    ELSE Returned([f \in RuleFields |->
                      IF f \in DOMAIN r THEN r[f] ELSE RoutingRule(r.agent)[f]])

\* rules the caller constructs: the default, one field changed, or all changed
RuleValues ==
    LET all == [agent : Agents,
                preferred_model : {DefaultModel, OtherModel},
                fallback_models : {<< >>, << OtherModel >>},
                max_retries : {DefaultMaxRetries, 1},
                timeout_seconds : {DefaultTimeoutSeconds, 5}]
        changed(r) == Cardinality({f \in RuleFields : r[f] # RoutingRule(r.agent)[f]})
    IN  { r \in all : changed(r) \in {0, 1, 4} }

\* the body without the timeout
rule_dict_no_timeout(rule) == [f \in RuleFields \ {"timeout_seconds"} |-> rule[f]]

\* rule.__dict__ as the JSON body of POST /admin/rules
rule_dict(rule) == [f \in RuleFields |-> rule[f]]

\* the server's list is keyed by agent: an entry for the agent is replaced in
\* place, a new agent is appended
ServerSetRule(rules, entry) ==
    IF \E i \in 1..Len(rules) : rules[i].agent = entry.agent
    THEN [i \in 1..Len(rules) |-> IF rules[i].agent = entry.agent THEN entry ELSE rules[i]]
    ELSE Append(rules, entry)

RulesShapes == {"ok", "extra_key", "no_rules"}
RulesJson(shape, rules) ==
    CASE shape = "ok" -> [rules |-> rules]
      [] shape = "extra_key" ->
           [rules |-> [i \in 1..Len(rules) |->
               [f \in DOMAIN rules[i] \cup {"created_at"} |->
                   IF f = "created_at" THEN DateTok ELSE rules[i][f]]]]
      [] OTHER -> ErrorJson

\* rules.get("rules", [])
rules_list(json) == IF "rules" \in DOMAIN json THEN json.rules ELSE << >>

\* the loop of rules_get: the first entry whose agent is the one asked for
RECURSIVE rules_find(_, _, _)
rules_find(entries, i, agent) ==
    IF i > Len(entries) THEN Returned(RoutingRule(agent))
    ELSE IF "agent" \in DOMAIN entries[i] /\ entries[i].agent = agent
        THEN RoutingRule_from(entries[i])
    ELSE rules_find(entries, i + 1, agent)

RulesGetOutcome(state, agent, reply, rules, prev) ==
    LET r == _request(state, reply)
        reqs == Sent(r, reply, "GET", "/admin/rules")
    IN  IF r.exc # "none"
            THEN Outcome("AgentAPIClient", "rules_get", agent, r.exc, NoValue, reqs, NoValue)
        ELSE LET json == RulesJson(reply.shape, rules)
                 d == rules_find(rules_list(json), 1, agent)
             IN  Outcome("AgentAPIClient", "rules_get", agent, d.exc, d.value, reqs,
                         [prev |-> prev, served |-> rules_list(json),
                          listed |-> "rules" \in DOMAIN json])

RulesSetOutcome(state, rule, reply) ==
    LET r == _request(state, reply)
        reqs == Sent(r, reply, "POST", "/admin/rules")
    IN  IF r.exc # "none"
            THEN Outcome("AgentAPIClient", "rules_set", rule, r.exc, NoValue, reqs, NoValue)
        ELSE Outcome("AgentAPIClient", "rules_set", rule, "none", [ok |-> TRUE], reqs,
                     rule_dict(rule))

\* another administrator stores an entry that leaves the optional fields out
server_admin(agent) ==
    /\ srvRules' = ServerSetRule(srvRules, [agent |-> agent, preferred_model |-> OtherModel])
    /\ result' = Outcome("server", "admin", agent, "none", None, NoReqs, NoValue)
    /\ UNCHANGED << closed, cacheVars, asyncVars, closed2, srvStatus, srvHistory,
                    pc, fetched >>
    /\ UNCHANGED waitVars

rules_set(rule, reply) ==
    /\ LET o == RulesSetOutcome(TransportState(closed2), rule, reply)
       IN  /\ result' = o
           /\ srvRules' = IF Accepted(TransportState(closed2), reply)
                          THEN ServerSetRule(srvRules, rule_dict(rule))
                          ELSE srvRules
    /\ UNCHANGED << closed, cacheVars, asyncVars, closed2, srvStatus, srvHistory,
                    pc, fetched >>
    /\ UNCHANGED waitVars

\* the rule of the call just before, when that call was a rules_set that returned
JustSet == IF result.op = "rules_set" /\ result.exc = "none" THEN << result.arg >> ELSE << >>

rules_get(agent, reply) ==
    /\ result' = RulesGetOutcome(TransportState(closed2), agent, reply, srvRules, JustSet)
    /\ UNCHANGED << closed, cacheVars, asyncVars, closed2, srvStatus, srvHistory,
                    srvRules, pc, fetched >>
    /\ UNCHANGED waitVars

health(reply) ==
    /\ LET r == _request(TransportState(closed2), reply)
       IN  result' = Outcome("AgentAPIClient", "health", None, r.exc,
                             IF r.exc = "none" THEN [status |-> "ok"] ELSE NoValue,
                             Sent(r, reply, "GET", "/health"), NoValue)
    /\ UNCHANGED << closed, cacheVars, asyncVars, closed2, srvStatus, srvHistory,
                    srvRules, pc, fetched >>
    /\ UNCHANGED waitVars

AgentAPIClient_close ==
    /\ closed2' = TRUE
    /\ result' = Outcome("AgentAPIClient", "close", None, "none", None, NoReqs, NoValue)
    /\ UNCHANGED << closed, cacheVars, asyncVars, srvStatus, srvHistory, srvRules,
                    pc, fetched >>
    /\ UNCHANGED waitVars

\* AgentAPIClient.__enter__: return self
AgentAPIClient__enter__ ==
    /\ result' = Outcome("AgentAPIClient", "__enter__", None, "none", Self, NoReqs, NoValue)
    /\ UNCHANGED << closed, cacheVars, asyncVars, srvStatus, srvHistory, pc, fetched >>
    /\ UNCHANGED waitVars
    /\ UNCHANGED rulesVars

\* AgentAPIClient.__exit__: self.close()
AgentAPIClient__exit__ ==
    /\ closed2' = TRUE
    /\ result' = Outcome("AgentAPIClient", "__exit__", None, "none", None, NoReqs, NoValue)
    /\ UNCHANGED << closed, cacheVars, asyncVars, srvStatus, srvHistory, srvRules,
                    pc, fetched >>
    /\ UNCHANGED waitVars

RulesReplies == Replies(RulesShapes, {"no_rules"})
PlainReplies == Replies({"ok"}, {"no_body"})

NextRules ==
    \/ \E a \in Agents : server_admin(a)
    \/ \E rule \in RuleValues, r \in PlainReplies : rules_set(rule, r)
    \/ \E a \in Agents, r \in RulesReplies : rules_get(a, r)
    \/ \E r \in PlainReplies : health(r)
    \/ AgentAPIClient_close
    \/ AgentAPIClient__enter__
    \/ AgentAPIClient__exit__

SpecRules == Init /\ [][NextRules]_vars

(***************************************************************************)
(* The error taxonomy of the specification, by Python exception class      *)
(***************************************************************************)
TransportError == {"HTTPStatusError", "ConnectError", "ReadError"}
FormatError == {"KeyError", "ValueError", "TypeError"}
NotFoundError == {"FileNotFoundError"}
ClosedClientError == {"RuntimeError"}

Returns == pc = "idle" /\ result.exc = "none"
Paths(reqs) == [i \in 1..Len(reqs) |-> << reqs[i].method, reqs[i].path >>]
RefusedStatus(reqs) == \E i \in 1..Len(reqs) : ~is_success(reqs[i].code)

(***************************************************************************)
(* C1  send and status, synchronous and asynchronous: a request answered   *)
(* with a non-2xx status makes the call fail with a TransportError, and no *)
(* MessageResponse or Status is returned.                                  *)
(***************************************************************************)
C1_NonSuccessRaises ==
    (/\ result.client \in {"AgentAPI", "AgentAPIAsync"}
     /\ result.op \in {"send", "status"}
     /\ RefusedStatus(result.reqs))
    => result.exc \in TransportError

(***************************************************************************)
(* C2  A wait (AgentAPI.wait_for_idle, Status.wait_until_idle) that        *)
(* returns, returns true exactly when the agent was idle at the moment of  *)
(* the call or at one of its polls; true is never returned without an idle *)
(* status having been seen.                                                *)
(***************************************************************************)
IdleSeen ==
    IF result.op = "wait_for_idle" THEN result.env.seen
    ELSE result.arg.self.status = "stable"

C2_TrueIffIdleSeen ==
    (result.op \in {"wait_for_idle", "wait_until_idle"} /\ Returns)
    => (result.value <=> IdleSeen)

(***************************************************************************)
(* C3  as claimed: wait_for_idle(T) has returned no later than T plus one  *)
(* polling interval after the call, however long status() takes.           *)
(***************************************************************************)
WaitEnded == result.op = "wait_for_idle" /\ pc = "idle"

C3_WithinTimeoutPlusInterval ==
    WaitEnded => result.env.elapsed <= result.arg * TicksPerSecond + SleepTicks

(***************************************************************************)
(* C3  as amended: wait_for_idle(T) always ends, and when it ends less     *)
(* time has passed since the call than T plus the duration of its latest   *)
(* status() request plus one polling interval; no status() request begins  *)
(* once T has passed.                                                      *)
(***************************************************************************)
ElapsedBound ==
    /\ WaitEnded =>
          result.env.elapsed < result.arg * TicksPerSecond + result.env.last + SleepTicks
    /\ pc = "sleep" => elapsed - wlast < wtimeout * TicksPerSecond
    /\ pc = "test" => elapsed - wlast - SleepTicks < wtimeout * TicksPerSecond

C3_EndsWithinTimeoutPlusLastRequest ==
    /\ []ElapsedBound
    /\ (pc # "idle") ~> (pc = "idle")

C3_Witness ==
    /\ WaitEnded
    /\ result.exc = "none"
    /\ result.value = FALSE
    /\ result.env.last >= 2
    /\ result.env.elapsed > result.arg * TicksPerSecond + SleepTicks

(***************************************************************************)
(* C4  After close() or the end of a with block, every call on the client  *)
(* fails with a ClosedClientError and puts no request on the wire.         *)
(***************************************************************************)
FacadeOps == {"send", "status", "messages", "upload", "chat", "wait_for_idle"}

C4_ClosedFailsFast ==
    (closed /\ result.client = "AgentAPI" /\ result.op \in FacadeOps /\ pc = "idle")
    => (result.exc \in ClosedClientError /\ result.reqs = NoReqs)

(***************************************************************************)
(* C5  A messages() that returns, returns the entries the server sent, one *)
(* for one and in the server's order, and the last message of the cached   *)
(* conversation is then the last entry sent (None for an empty history).   *)
(***************************************************************************)
\* the instant a wire timestamp denotes
Instant(time) ==
    [date |-> time[1], tz |-> IF Len(time) = 1 THEN "naive" ELSE "UTC"]

SameMessage(m, w) ==
    /\ m.id = w.id
    /\ m.content = w.content
    /\ m.role = w.role
    /\ m.time = Instant(w.time)

C5_FetchKeepsServerOrder ==
    (result.client = "AgentAPI" /\ result.op = "messages" /\ result.exc = "none")
    => /\ Len(result.value) = Len(result.env)
       /\ \A i \in 1..Len(result.env) : SameMessage(result.value[i], result.env[i])
       /\ IF result.env = << >>
          THEN last_message(conversation) = None
          ELSE SameMessage(last_message(conversation), result.env[Len(result.env)])

C5_Witness ==
    /\ result.client = "AgentAPI"
    /\ result.op = "messages"
    /\ result.exc = "none"
    /\ Len(result.value) >= 2
    /\ result.value[1].role = "user"
    /\ result.value[2].role = "agent"
    /\ last_message(conversation).id = 1

(***************************************************************************)
(* C6  A chat(prompt) that returns has sent POST /message and then         *)
(* GET /messages and nothing else, and returns the content of the last     *)
(* entry of that history, "" if it is empty; while the send is the only    *)
(* request made, the history has not been asked for.                       *)
(***************************************************************************)
C6_ChatReturnsNewest ==
    /\ (result.op = "chat" /\ result.exc = "none")
       => /\ Paths(result.reqs) = << << "POST", "/message" >>, << "GET", "/messages" >> >>
          /\ result.value = IF result.env = << >> THEN ""
                            ELSE result.env[Len(result.env)].content
    /\ pc \in {"chat", "chat_function"}
       => Paths(result.reqs) = << << "POST", "/message" >> >>

C6_Witness ==
    /\ result.op = "chat"
    /\ result.exc = "none"
    /\ result.arg = "hello"
    /\ srvStatus = "stable"
    /\ Len(result.env) >= 2
    /\ result.env[Len(result.env)].role = "agent"
    /\ result.value = "hi"

(***************************************************************************)
(* C7  upload of a path that does not exist fails with a NotFoundError     *)
(* and puts no request on the wire.                                        *)
(***************************************************************************)
C7_MissingFileNoRequest ==
    (result.op = "upload" /\ result.arg = FALSE)
    => (result.exc \in NotFoundError /\ result.reqs = NoReqs)

C7_Witness ==
    /\ result.op = "upload"
    /\ result.arg = FALSE
    /\ ~closed
    /\ result.exc = "FileNotFoundError"

(***************************************************************************)
(* C8  rules_get(r.agent) right after a rules_set(r) that returned, when   *)
(* the server answers with its rule list, returns r field for field,       *)
(* whatever the list held before.                                          *)
(***************************************************************************)
C8_RuleRoundTrip ==
    (/\ result.op = "rules_get"
     /\ result.exc = "none"
     /\ result.env.listed
     /\ result.env.prev # << >>
     /\ result.env.prev[1].agent = result.arg)
    => \A f \in RuleFields : result.value[f] = result.env.prev[1][f]

C8_Witness ==
    /\ result.op = "rules_get"
    /\ result.exc = "none"
    /\ result.env.listed
    /\ result.env.prev # << >>
    /\ result.env.prev[1].agent = result.arg
    /\ Len(result.env.served) = 2
    /\ result.env.served[2].agent = result.arg
    /\ result.value.timeout_seconds = 5
    /\ result.value.max_retries = 1

(***************************************************************************)
(* C9  rules_get(agent) that returns: with no entry for the agent in the   *)
(* served list (empty or missing included) the rule has the agent asked    *)
(* for and the defaults claude-3-5-sonnet-20241022, no fallbacks, 3        *)
(* retries, timeout 30; with an entry, the rule carries that entry.        *)
(***************************************************************************)
EntriesFor(agent, served) == { i \in 1..Len(served) : served[i].agent = agent }

C9_DefaultWhenAbsent ==
    (result.op = "rules_get" /\ result.exc = "none")
    => LET hits == EntriesFor(result.arg, result.env.served) IN
       IF hits = {}
       THEN result.value =
                [agent |-> result.arg,
                 preferred_model |-> "claude-3-5-sonnet-20241022",
                 fallback_models |-> << >>,
                 max_retries |-> 3,
                 timeout_seconds |-> 30]
       ELSE LET e == result.env.served[CHOOSE i \in hits : \A j \in hits : i <= j]
            IN  \A f \in DOMAIN e : result.value[f] = e[f]

C9_Witness ==
    /\ result.op = "rules_get"
    /\ result.exc = "none"
    /\ result.env.served # << >>
    /\ EntriesFor(result.arg, result.env.served) = {}
    /\ result.value.agent = result.arg
    /\ result.value.max_retries = 3

(***************************************************************************)
(* C10  as claimed: the cached conversation is at all times the result of  *)
(* the last messages() that returned (empty before the first).             *)
(***************************************************************************)
C10_CacheIsLastFetch == conversation = fetched

(***************************************************************************)
(* C10  as amended: a step changes the cached conversation only if it is a *)
(* messages() or chat() that fetched the history without error, and then   *)
(* the cache is what was fetched, or if it is the caller writing to the    *)
(* list (Conversation.add, Conversation.clear, append on the list that     *)
(* messages() returned).  No other call and no failed messages() changes   *)
(* it: a cache equal to the last fetch stays so until the caller writes.   *)
(***************************************************************************)
CallerWrites == {"add", "clear", "append"}

CallerWrote ==
    /\ result'.client \in {"Conversation", "list"}
    /\ result'.op \in CallerWrites
    /\ UNCHANGED << srvStatus, srvHistory, fetched >>

Fetched ==
    /\ result'.client = "AgentAPI"
    /\ result'.op \in {"messages", "chat"}
    /\ result'.exc = "none"
    /\ conversation' = fetched'

C10_CacheChangesByFetchOrCaller ==
    [][ /\ conversation' # conversation => (Fetched \/ CallerWrote)
        /\ fetched' # fetched => Fetched
        /\ (conversation = fetched /\ ~CallerWrote) => conversation' = fetched'
      ]_vars

C10_Witness ==
    /\ result.op = "messages"
    /\ result.exc \in FormatError
    /\ result.reqs # NoReqs
    /\ Len(srvHistory) >= 2
    /\ Len(conversation) = 2
    /\ Len(fetched) = 1
    /\ conversation[1] = fetched[1]
    /\ conversation[2].id = 7

====
